---------------------------- MODULE Spec2Model ----------------------------
(*************************************************************************)
(* Model of the Gemini CLI wrapper: the rate limiter (GeminiRateLimiter), *)
(* the request runner GeminiAPI.prompt with its response cache, the      *)
(* background worker draining the request queue, and the job registry of *)
(* the REST server.                                                      *)
(*                                                                       *)
(* Time is in whole seconds (SQLite's CURRENT_TIMESTAMP resolution).     *)
(* Result dictionaries are objects on a heap, addressed by reference, so *)
(* that the aliasing between the cache, the job registry and the callers *)
(* is part of the model.                                                 *)
(*************************************************************************)
EXTENDS Integers, Sequences, FiniteSets, TLC

\* ---------------------------------------------------------------- bounds
MaxRuns == 2        \* synchronous prompt() calls over a behaviour
MaxJobs == 2        \* jobs created by the async endpoint
MaxTicks == 1       \* steps of the environment clock
MaxFails == 3       \* failed runs of the external command over a behaviour
max_requests == 1   \* rate_limit_per_hour the limiter is built with
MaxRestarts == 1    \* restarts of the process over a behaviour

\* ------------------------------------------------------ program constants
max_retries == 3
Hour == 3600
Day == 86400

\* ------------------------------------------------------------ input sets
Callers == {"c1", "c2"}
Worker == "w"
Batcher == "b"
Threads == Callers \cup {Worker, Batcher}
Handlers == {"h1", "h2"}
Prompts == {"p"}
DistinctPrompts == <<"p", "q", "r", "s", "t">>
None == [isNone |-> TRUE, items |-> <<>>]
FlagLists == {None, [isNone |-> FALSE, items |-> <<>>]}
Outputs == {"o1", "o2"}
Errors == {"stderr"}
TzOffsets == {0, Hour}
TickSteps == {Hour, Hour + 1}

VARIABLES
    now,            \* UTC wall clock, seconds
    tz,             \* offset of local time from UTC, seconds
    ticks,          \* environment clock steps taken
    requests,       \* rows of the requests table: [id, timestamp, prompt_hash]
    next_id,        \* AUTOINCREMENT counter of the requests table
    response_cache, \* GeminiAPI.response_cache: cache key -> reference
    heap,           \* result dictionaries: reference -> dictionary
    request_queue,  \* GeminiAPI.request_queue
    job_results,    \* server job registry: job id -> record
    th,             \* per thread: position in prompt() and its locals
    hd,             \* per HTTP handler of /prompt/async: position and locals
    wreq,           \* the request the worker holds (job 0: none)
    nruns,          \* prompt() calls started so far
    nfails,         \* failed runs of the external command so far
    observed,       \* per job: the statuses its polls returned, in order
    ins_outs,       \* per cache key: outputs inserted since the last clear
    ok_outs,        \* per cache key: outputs of runs returned with success
    qlog,           \* per job: dequeues, runs and callback invocations
    fifo,           \* job ids in the order of their puts and of their gets
    cleared_keys,   \* keys a clear removed and no call has looked up since
    restarts,       \* process restarts so far
    batch           \* the thread running batch_prompts: position and locals

vars == <<now, tz, ticks, requests, next_id, response_cache, heap,
          request_queue, job_results, th, hd, wreq, nruns, nfails, observed,
          ins_outs, ok_outs, qlog, fifo, cleared_keys, restarts, batch>>

\* ------------------------------------------------------------- helpers
Max(a, b) == IF a >= b THEN a ELSE b

RECURSIVE Pow2(_)
Pow2(n) == IF n = 0 THEN 1 ELSE 2 * Pow2(n - 1)

RECURSIVE JoinRepr(_)
JoinRepr(items) ==
    IF items = <<>> THEN ""
    ELSE IF Len(items) = 1 THEN "'" \o Head(items) \o "'"
    ELSE "'" \o Head(items) \o "', " \o JoinRepr(Tail(items))

\* str(extra_flags) as the f-string of prompt() renders it
FlagsRepr(flags) ==
    IF flags.isNone THEN "None" ELSE "[" \o JoinRepr(flags.items) \o "]"

\* cache_key: the digest of text followed by str(extra_flags); the digest
\* itself is taken to be collision free
CacheKey(text, flags) == text \o FlagsRepr(flags)

Keys ==
    {CacheKey(p, f) :
        p \in Prompts \cup {DistinctPrompts[i] : i \in DOMAIN DistinctPrompts},
        f \in FlagLists}

\* ------------------------------------------------------- rate limiter
\* rows the DELETE of can_make_request removes
Expired(rows, t) == {r \in rows : r.timestamp < t - Hour}

\* rows the COUNT of can_make_request and get_usage_stats counts
InWindow(rows, t) == {r \in rows : r.timestamp > t - Hour}

Today(rows, t) == {r \in rows : r.timestamp > t - (t % Day)}

MinTimestamp(rows) ==
    CHOOSE m \in {r.timestamp : r \in rows} :
        \A r \in rows : m <= r.timestamp

\* variant: the wait without its floor of one second
WaitSecondsNoFloor(rows, t, offset) ==
    IF InWindow(rows, t) # {}
    THEN MinTimestamp(InWindow(rows, t)) + Hour - (t + offset)
    ELSE 60

\* wait of a denied request: MIN(timestamp) is UTC, datetime.now() is local
WaitSeconds(rows, t, offset) ==
    IF InWindow(rows, t) # {}
    THEN Max(1, MinTimestamp(InWindow(rows, t)) + Hour - (t + offset))
    ELSE 60

\* the rows the connection of can_make_request sees after its DELETE
Pruned(rows, t) == rows \ Expired(rows, t)

\* variant: the DELETE is committed before the connection is closed
ClosedAfterCommit(committed, pending) == pending

\* conn.close() with no conn.commit(): the pending transaction (the DELETE
\* of can_make_request) is discarded and the table keeps its committed rows
Closed(committed, pending) == committed

\* variant: the INSERT is not committed before the connection is closed
ClosedUncommitted(committed, pending) == committed

\* conn.commit() then conn.close(): the table holds the pending rows
Committed(committed, pending) == pending

\* variant: a request is allowed while the count has not passed the limit
AtLimit(count) == count <= max_requests

\* the test `count < self.max_requests` of can_make_request
UnderLimit(count) == count < max_requests

Allowed(rows, t) == Cardinality(InWindow(Pruned(rows, t), t)) < max_requests

UsageStats(rows, t) ==
    [requests_last_hour |-> Cardinality(InWindow(rows, t)),
     requests_today |-> Cardinality(Today(rows, t)),
     remaining_this_hour |-> max_requests - Cardinality(InWindow(rows, t)),
     max_per_hour |-> max_requests]

NoUsage ==
    [requests_last_hour |-> 0 - 1, requests_today |-> 0 - 1,
     remaining_this_hour |-> 0 - 1, max_per_hour |-> 0 - 1]

\* ------------------------------------------------------- result dicts
SuccessResult(out) ==
    [success |-> TRUE, output |-> out, error |-> "None",
     from_cache |-> FALSE, wait_time |-> 0, usage |-> NoUsage, attempt |-> 0]

RateLimitedResult(wait, usage) ==
    [success |-> FALSE, output |-> "None", error |-> "Rate limit reached",
     from_cache |-> FALSE, wait_time |-> wait, usage |-> usage, attempt |-> 0]

FailedResult(last_error, usage) ==
    [success |-> FALSE, output |-> "None", error |-> last_error,
     from_cache |-> FALSE, wait_time |-> 0, usage |-> usage, attempt |-> 0]

\* variant: the backoff starts at one second
BackoffFromOne(attempt) == Pow2(attempt - 1)

\* delay before attempt number `attempt` (0-based) of the retry loop
Backoff(attempt) == Pow2(attempt)

\* ------------------------------------------------------- thread locals
IdleLocals ==
    [pc |-> "idle", run |-> 0, text |-> "", flags |-> None,
     use_cache |-> FALSE, attempt |-> 0, wake |-> 0, last_error |-> "None",
     res |-> 0, wait |-> 0,
     \* bookkeeping of the current run
     execs |-> 0, sleeps |-> <<>>, recs |-> 0, admits |-> 0, rows0 |-> {},
     present |-> FALSE, expect |-> {}, cleared |-> FALSE,
     exhausted |-> FALSE, hit |-> FALSE,
     after_clear |-> FALSE, restored |-> FALSE]

IdleHandler == [pc |-> "idle", job |-> 0, text |-> "", flags |-> None]

Absent == 0 - 1

NoRequest == [job |-> 0, prompt |-> "", extra_flags |-> None]

NoJobLog == [dequeued |-> 0, runs |-> 0, callbacks |-> 0, raised |-> 0]

NoOrder == [puts |-> <<>>, starts |-> <<>>]

IdleBatch ==
    [pc |-> "idle", i |-> 0, results |-> <<>>, wait |-> 0, slept |-> <<>>]

Init ==
    /\ now = 0
    /\ tz \in TzOffsets
    /\ ticks = 0
    /\ requests = {}
    /\ next_id = 1
    /\ response_cache = [k \in {} |-> 0]
    /\ heap = [r \in {} |-> 0]
    /\ request_queue = <<>>
    /\ job_results = [j \in {} |-> 0]
    /\ th = [t \in Threads |-> IdleLocals]
    /\ hd = [h \in Handlers |-> IdleHandler]
    /\ wreq = NoRequest
    /\ nruns = 0
    /\ nfails = 0
    /\ observed = [j \in 1..MaxJobs |-> <<>>]
    /\ ins_outs = [k \in Keys |-> {}]
    /\ ok_outs = [k \in Keys |-> {}]
    /\ qlog = [j \in 1..MaxJobs |-> NoJobLog]
    /\ fifo = NoOrder
    /\ cleared_keys = {}
    /\ restarts = 0
    /\ batch = IdleBatch

\* ------------------------------------------------------------- the heap
\* dictionaries still referenced by the cache, a job record, a thread or
\* the results list of batch_prompts
Live(cache, jobs, thr) ==
    {cache[k] : k \in DOMAIN cache}
        \cup {jobs[j].result : j \in DOMAIN jobs}
        \cup {thr[t].res : t \in Threads}
        \cup {batch.results[i] : i \in DOMAIN batch.results}

\* the heap without the dictionaries nothing refers to any more
Collect(h, cache, jobs, thr) ==
    [r \in DOMAIN h \cap Live(cache, jobs, thr) |-> h[r]]

Alloc(h, ref, dict) == [r \in DOMAIN h \cup {ref} |-> IF r = ref THEN dict ELSE h[r]]

\* ------------------------------------------------------ GeminiAPI.prompt
Key(t) == CacheKey(th[t].text, th[t].flags)

Busy(t) == th[t].pc # "idle"

\* variant: the cache is looked up by the prompt text alone
CacheHitByText(text, flags, uc) == uc /\ text \in DOMAIN response_cache

\* variant: a cached answer is served only while the quota allows a request
CacheHitIfAllowed(text, flags, uc) ==
    /\ uc
    /\ CacheKey(text, flags) \in DOMAIN response_cache
    /\ Allowed(requests, now)

\* variant: the cache is consulted whatever use_cache says
CacheHitAnyway(text, flags, uc) ==
    CacheKey(text, flags) \in DOMAIN response_cache

\* the test `use_cache and cache_key in self.response_cache`
CacheHit(text, flags, uc) ==
    uc /\ CacheKey(text, flags) \in DOMAIN response_cache

\* the locals of a thread that enters prompt(text, extra_flags, use_cache)
\* as run number `run` and has tested the cache
Enter(run, text, flags, uc) ==
    [IdleLocals EXCEPT
        !.pc = IF CacheHit(text, flags, uc) THEN "cache_read" ELSE "admit",
        !.run = run, !.text = text, !.flags = flags, !.use_cache = uc,
        !.rows0 = requests,
        !.present = uc /\ CacheKey(text, flags) \in DOMAIN response_cache,
        !.expect = IF uc THEN ok_outs[CacheKey(text, flags)] ELSE {},
        !.after_clear = uc /\ CacheKey(text, flags) \in cleared_keys,
        !.restored = ins_outs[CacheKey(text, flags)] # {}]

\* the cleared keys still waiting for their next lookup, after this one
Looked(text, flags, uc) ==
    IF uc THEN cleared_keys \ {CacheKey(text, flags)} ELSE cleared_keys

\* a reference no dictionary and no run in progress uses
FreshRef ==
    CHOOSE r \in 1..(Cardinality(Threads) + MaxRuns + MaxJobs + 2) :
        /\ r \notin DOMAIN heap
        /\ \A t \in Threads : th[t].run # r
        /\ \A q \in 1..(r - 1) :
              q \in DOMAIN heap \/ \E t \in Threads : th[t].run = q

\* a synchronous caller (the /prompt route or a script) calls prompt()
Call(t, text, flags, uc) ==
    /\ t \in Callers
    /\ th[t].pc = "idle"
    /\ th' = [th EXCEPT ![t] = Enter(FreshRef, text, flags, uc)]
    /\ nruns' = nruns + 1
    /\ cleared_keys' = Looked(text, flags, uc)
    /\ UNCHANGED <<now, tz, ticks, requests, next_id, response_cache, heap,
                   request_queue, job_results, hd, wreq, nfails, observed, ins_outs,
                   ok_outs, qlog, fifo, restarts, batch>>

\* cached = self.response_cache[cache_key]; cached["from_cache"] = True;
\* return cached.  The subscript raises KeyError when the entry is gone.
CacheRead(t) ==
    /\ th[t].pc = "cache_read"
    /\ IF Key(t) \in DOMAIN response_cache
       THEN /\ heap' = [heap EXCEPT ![response_cache[Key(t)]].from_cache = TRUE]
            /\ th' = [th EXCEPT ![t].pc = "done",
                                ![t].res = response_cache[Key(t)],
                                ![t].hit = TRUE,
                                ![t].exhausted = ~Allowed(requests, now)]
       ELSE /\ heap' = heap
            /\ th' = [th EXCEPT ![t].pc = "raised"]
    /\ UNCHANGED <<now, tz, ticks, requests, next_id, response_cache,
                   request_queue, job_results, hd, wreq, nruns, nfails, observed,
                   ins_outs, ok_outs, qlog,
                   fifo, cleared_keys, restarts, batch>>

\* self.rate_limiter.can_make_request(), one critical section of the lock
Admit(t) ==
    /\ th[t].pc = "admit"
    /\ LET view == Pruned(requests, now)
           count == Cardinality(InWindow(view, now))
           rows == Closed(requests, view)
       IN /\ requests' = rows
          /\ th' = [th EXCEPT
                ![t].admits = @ + 1,
                ![t].pc = IF UnderLimit(count)
                          THEN (IF max_retries > 0 THEN "execute" ELSE "failed")
                          ELSE "denied",
                ![t].wake = now,
                ![t].wait = IF UnderLimit(count) THEN 0
                            ELSE WaitSeconds(rows, now, tz)]
    /\ UNCHANGED <<now, tz, ticks, next_id, response_cache, heap,
                   request_queue, job_results, hd, wreq, nruns, nfails, observed,
                   ins_outs, ok_outs, qlog,
                   fifo, cleared_keys, restarts, batch>>

\* the early return of a denied request, with get_usage_stats()
Denied(t) ==
    /\ th[t].pc = "denied"
    /\ heap' = Alloc(heap, th[t].run,
                     RateLimitedResult(th[t].wait, UsageStats(requests, now)))
    /\ th' = [th EXCEPT ![t].pc = "done", ![t].res = th[t].run]
    /\ UNCHANGED <<now, tz, ticks, requests, next_id, response_cache,
                   request_queue, job_results, hd, wreq, nruns, nfails, observed,
                   ins_outs, ok_outs, qlog,
                   fifo, cleared_keys, restarts, batch>>

\* one pass of the retry loop: the pending sleep ends, then
\* _execute_gemini_command runs and succeeds with some output
ExecuteOk(t, out) ==
    /\ th[t].pc = "execute"
    /\ now' = Max(now, th[t].wake)
    /\ heap' = Alloc(heap, th[t].run, SuccessResult(out))
    /\ th' = [th EXCEPT ![t].pc = "record", ![t].res = th[t].run,
                        ![t].execs = @ + 1]
    /\ UNCHANGED <<tz, ticks, requests, next_id, response_cache,
                   request_queue, job_results, hd, wreq, nruns, nfails, observed,
                   ins_outs, ok_outs, qlog,
                   fifo, cleared_keys, restarts, batch>>

\* one pass of the retry loop that fails (non-zero exit, timeout or
\* exception); the next pass, if any, starts with time.sleep(2 ** attempt)
ExecuteFail(t, err) ==
    /\ th[t].pc = "execute"
    /\ nfails < MaxFails
    /\ nfails' = nfails + 1
    /\ now' = Max(now, th[t].wake)
    /\ th' = [th EXCEPT
          ![t].last_error = err,
          ![t].execs = @ + 1,
          ![t].attempt = @ + 1,
          ![t].pc = IF th[t].attempt + 1 < max_retries THEN "execute"
                    ELSE "failed",
          ![t].wake = IF th[t].attempt + 1 < max_retries
                      THEN now' + Backoff(th[t].attempt + 1) ELSE @,
          ![t].sleeps = IF th[t].attempt + 1 < max_retries
                        THEN Append(@, Backoff(th[t].attempt + 1)) ELSE @]
    /\ UNCHANGED <<tz, ticks, requests, next_id, response_cache, heap,
                   request_queue, job_results, hd, wreq, nruns, observed,
                   ins_outs, ok_outs, qlog,
                   fifo, cleared_keys, restarts, batch>>

\* self.rate_limiter.record_request(text, len(output))
Record(t) ==
    /\ th[t].pc = "record"
    /\ requests' = Committed(requests, requests \cup
          {[id |-> next_id, timestamp |-> now, prompt_hash |-> th[t].text,
            response_length |-> Len(heap[th[t].res].output)]})
    /\ next_id' = next_id + 1
    /\ th' = [th EXCEPT ![t].pc = "cache_put", ![t].recs = @ + 1]
    /\ UNCHANGED <<now, tz, ticks, response_cache, heap, request_queue,
                   job_results, hd, wreq, nruns, nfails, observed, ins_outs, ok_outs,
                   qlog,
                   fifo, cleared_keys, restarts, batch>>

\* if use_cache: self.response_cache[cache_key] = result
CachePut(t) ==
    /\ th[t].pc = "cache_put"
    /\ IF th[t].use_cache
       THEN /\ response_cache' =
                  [k \in DOMAIN response_cache \cup {Key(t)} |->
                      IF k = Key(t) THEN th[t].res ELSE response_cache[k]]
            /\ ins_outs' = [ins_outs EXCEPT
                  ![Key(t)] = @ \cup {heap[th[t].res].output}]
       ELSE UNCHANGED <<response_cache, ins_outs>>
    /\ th' = [th EXCEPT ![t].pc = "finish"]
    /\ heap' = Collect(heap, response_cache', job_results, th')
    /\ UNCHANGED <<now, tz, ticks, requests, next_id, request_queue,
                   job_results, hd, wreq, nruns, nfails, observed, ok_outs, qlog,
                   fifo, cleared_keys, restarts, batch>>

\* result["usage"] = get_usage_stats(); result["attempt"] = attempt + 1
Finish(t) ==
    /\ th[t].pc = "finish"
    /\ heap' = [heap EXCEPT ![th[t].res].usage = UsageStats(requests, now),
                            ![th[t].res].attempt = th[t].attempt + 1]
    /\ th' = [th EXCEPT ![t].pc = "done"]
    /\ UNCHANGED <<now, tz, ticks, requests, next_id, response_cache,
                   request_queue, job_results, hd, wreq, nruns, nfails, observed,
                   ins_outs, ok_outs, qlog,
                   fifo, cleared_keys, restarts, batch>>

\* variant: the result of the failed retries is stored in the cache
FailedCached(t) ==
    /\ th[t].pc = "failed"
    /\ heap' = Alloc(heap, th[t].run,
                     FailedResult(th[t].last_error, UsageStats(requests, now)))
    /\ th' = [th EXCEPT ![t].pc = "done", ![t].res = th[t].run]
    /\ response_cache' =
          IF th[t].use_cache
          THEN [k \in DOMAIN response_cache \cup {Key(t)} |->
                   IF k = Key(t) THEN th[t].run ELSE response_cache[k]]
          ELSE response_cache
    /\ UNCHANGED <<now, tz, ticks, requests, next_id,
                   request_queue, job_results, hd, wreq, nruns, nfails, observed,
                   ins_outs, ok_outs, qlog,
                   fifo, cleared_keys, restarts, batch>>

\* the return after the loop: all retries failed
Failed(t) ==
    /\ th[t].pc = "failed"
    /\ heap' = Alloc(heap, th[t].run,
                     FailedResult(th[t].last_error, UsageStats(requests, now)))
    /\ th' = [th EXCEPT ![t].pc = "done", ![t].res = th[t].run]
    /\ UNCHANGED <<now, tz, ticks, requests, next_id, response_cache,
                   request_queue, job_results, hd, wreq, nruns, nfails, observed,
                   ins_outs, ok_outs, qlog,
                   fifo, cleared_keys, restarts, batch>>

\* outputs of the successful use_cache runs that returned with the cache
\* untouched by a clear since they began
Returned(t) ==
    IF th[t].use_cache /\ heap[th[t].res].success /\ ~th[t].cleared
    THEN [ok_outs EXCEPT ![Key(t)] = @ \cup {heap[th[t].res].output}]
    ELSE ok_outs

\* prompt() returns its result to a synchronous caller
CallerReturn(t) ==
    /\ t \in Callers
    /\ th[t].pc = "done"
    /\ ok_outs' = Returned(t)
    /\ th' = [th EXCEPT ![t] = IdleLocals]
    /\ heap' = Collect(heap, response_cache, job_results, th')
    /\ UNCHANGED <<now, tz, ticks, requests, next_id, response_cache,
                   request_queue, job_results, hd, wreq, nruns, nfails, observed,
                   ins_outs, qlog,
                   fifo, cleared_keys, restarts, batch>>

\* the KeyError leaves prompt(): the /prompt route answers 500
CallerRaised(t) ==
    /\ t \in Callers
    /\ th[t].pc = "raised"
    /\ th' = [th EXCEPT ![t] = IdleLocals]
    /\ UNCHANGED <<now, tz, ticks, requests, next_id, response_cache, heap,
                   request_queue, job_results, hd, wreq, nruns, nfails, observed,
                   ins_outs, ok_outs, qlog,
                   fifo, cleared_keys, restarts, batch>>

\* variant: the clear leaves the entries in place
ClearedNothing(cache) == cache

\* dict.clear(): no entry is left
Cleared(cache) == [k \in {} |-> 0]

\* POST /cache/clear: gemini.response_cache.clear()
ClearCache ==
    /\ response_cache' = Cleared(response_cache)
    /\ ins_outs' = [k \in Keys |-> {}]
    /\ ok_outs' = [k \in Keys |-> {}]
    /\ th' = [t \in Threads |->
                IF Busy(t) /\ th[t].use_cache
                THEN [th[t] EXCEPT !.cleared = TRUE] ELSE th[t]]
    /\ heap' = Collect(heap, response_cache', job_results, th)
    /\ cleared_keys' = cleared_keys \cup DOMAIN response_cache
    /\ UNCHANGED <<now, tz, ticks, requests, next_id, request_queue,
                   job_results, hd, wreq, nruns, nfails, observed, qlog,
                   fifo, restarts, batch>>

\* time passes between requests.  No call of prompt() lasts an hour (at most
\* three runs of the command, 300 s each, and 6 s of sleep), so the clock
\* makes its long steps while no call is in progress; within a call it
\* advances by the sleeps of the retry loop.
Tick(d) ==
    /\ ticks < MaxTicks
    /\ \A t \in Threads : th[t].pc = "idle"
    /\ now' = now + d
    /\ ticks' = ticks + 1
    /\ UNCHANGED <<tz, requests, next_id, response_cache, heap,
                   request_queue, job_results, th, hd, wreq, nruns, nfails, observed,
                   ins_outs, ok_outs, qlog,
                   fifo, cleared_keys, restarts, batch>>

\* ------------------------------------------- GeminiAPI.batch_prompts
\* the prompts of the batch: two more than the quota
BatchList == SubSeq(DistinctPrompts, 1, max_requests + 2)

\* batch_prompts(prompts) is called: results = []
BatchStart ==
    /\ batch.pc = "idle"
    /\ batch' = [IdleBatch EXCEPT !.pc = "check", !.i = 1]
    /\ UNCHANGED <<now, tz, ticks, requests, next_id, response_cache, heap,
                   request_queue, job_results, th, hd, wreq, nruns, nfails,
                   observed, ins_outs, ok_outs, qlog, fifo, cleared_keys,
                   restarts>>

\* can_proceed, wait_time = can_make_request(); if not can_proceed:
\* time.sleep(wait_time)
BatchCheck ==
    /\ batch.pc = "check"
    /\ LET view == Pruned(requests, now)
           count == Cardinality(InWindow(view, now))
           rows == Closed(requests, view)
           wait == IF UnderLimit(count) THEN 0
                   ELSE WaitSeconds(rows, now, tz)
       IN /\ requests' = rows
          /\ now' = now + wait
          /\ batch' = [batch EXCEPT
                !.pc = "call", !.wait = wait,
                !.slept = IF UnderLimit(count) THEN @
                          ELSE Append(@, [item |-> batch.i, secs |-> wait])]
    /\ UNCHANGED <<tz, ticks, next_id, response_cache, heap,
                   request_queue, job_results, th, hd, wreq, nruns, nfails,
                   observed, ins_outs, ok_outs, qlog, fifo, cleared_keys,
                   restarts>>

\* result = self.prompt(prompt): the call is entered
BatchCall ==
    /\ batch.pc = "call"
    /\ th[Batcher].pc = "idle"
    /\ th' = [th EXCEPT ![Batcher] =
                 Enter(FreshRef, BatchList[batch.i], None, TRUE)]
    /\ cleared_keys' = Looked(BatchList[batch.i], None, TRUE)
    /\ batch' = [batch EXCEPT !.pc = "running"]
    /\ UNCHANGED <<now, tz, ticks, requests, next_id, response_cache, heap,
                   request_queue, job_results, hd, wreq, nruns, nfails,
                   observed, ins_outs, ok_outs, qlog, fifo, restarts>>

\* results.append(result); time.sleep(1) unless the item is the last, and
\* the return of the list after the last
BatchAppend ==
    /\ batch.pc = "running"
    /\ th[Batcher].pc = "done"
    /\ ok_outs' = Returned(Batcher)
    /\ th' = [th EXCEPT ![Batcher] = IdleLocals]
    /\ batch' = [batch EXCEPT
          !.results = Append(@, th[Batcher].res),
          !.i = IF batch.i < Len(BatchList) THEN @ + 1 ELSE @,
          !.pc = IF batch.i < Len(BatchList) THEN "check" ELSE "returned"]
    /\ now' = IF batch.i < Len(BatchList) THEN now + 1 ELSE now
    /\ UNCHANGED <<tz, ticks, requests, next_id, response_cache, heap,
                   request_queue, job_results, hd, wreq, nruns, nfails,
                   observed, ins_outs, qlog, fifo, cleared_keys, restarts>>

\* ------------------------------------------- server: POST /prompt/async
\* job_id = str(uuid.uuid4()): an identifier no job has had
NewJobId == Cardinality(DOMAIN job_results) + 1

ProcessingRecord(t) ==
    [status |-> "processing", result |-> 0, started_at |-> t,
     completed_at |-> Absent]

\* variant: the callback uses the job_id of the latest request
LatestJob(request) == Cardinality(DOMAIN job_results)

\* the job_id the callback closure of a queued request was created with
CallbackTarget(request) == request.job

\* variant: the callback stores "failed" for a failure result
CompletedOrFailedRecord(ref, t) ==
    [status |-> IF heap[ref].success THEN "completed" ELSE "failed",
     result |-> ref, started_at |-> Absent, completed_at |-> t]

\* the record the callback of prompt_async stores for its job
CompletedRecord(ref, t) ==
    [status |-> "completed", result |-> ref, started_at |-> Absent,
     completed_at |-> t]

\* the handler creates the job record under job_lock
AsyncInit(h, text, flags) ==
    /\ hd[h].pc = "idle"
    /\ Cardinality(DOMAIN job_results) < MaxJobs
    /\ job_results' =
          [j \in DOMAIN job_results \cup {NewJobId} |->
              IF j = NewJobId THEN ProcessingRecord(now + tz)
              ELSE job_results[j]]
    /\ hd' = [hd EXCEPT ![h] = [pc |-> "put", job |-> NewJobId,
                                text |-> text, flags |-> flags]]
    /\ UNCHANGED <<now, tz, ticks, requests, next_id, response_cache, heap,
                   request_queue, th, wreq, nruns, nfails, observed, ins_outs,
                   ok_outs, qlog,
                   fifo, cleared_keys, restarts, batch>>

\* variant: the queue is a stack (queue.LifoQueue)
Pushed(q, item) == <<item>> \o q

\* queue.Queue.put: the item joins the queue at its tail
Enqueued(q, item) == Append(q, item)

\* gemini.prompt_async(prompt, callback, extra_flags): request_queue.put
AsyncPut(h) ==
    /\ hd[h].pc = "put"
    /\ request_queue' = Enqueued(request_queue,
          [job |-> hd[h].job, prompt |-> hd[h].text,
           extra_flags |-> hd[h].flags])
    /\ hd' = [hd EXCEPT ![h] = IdleHandler]
    /\ fifo' = [fifo EXCEPT !.puts = Append(@, hd[h].job)]
    /\ UNCHANGED <<now, tz, ticks, requests, next_id, response_cache, heap,
                   job_results, th, wreq, nruns, nfails, observed, ins_outs,
                   ok_outs, qlog, cleared_keys, restarts, batch>>

\* the statuses seen so far, extended by one more answer
Seen(seen, status) ==
    IF seen # <<>> /\ seen[Len(seen)] = status THEN seen
    ELSE Append(seen, status)

\* variant: an unknown id is answered like a job not yet done
LookupDefault(jobs, j) ==
    IF j \in DOMAIN jobs THEN jobs[j].status ELSE "processing"

\* the answer of get_job: 404 "Job not found" or the record of the job
Lookup(jobs, j) ==
    IF j \in DOMAIN jobs THEN jobs[j].status ELSE "not_found"

\* GET /job/<job_id> of a job that exists
Poll(j) ==
    /\ j \in DOMAIN job_results
    /\ observed' = [observed EXCEPT ![j] = Seen(@, Lookup(job_results, j))]
    /\ UNCHANGED <<now, tz, ticks, requests, next_id, response_cache, heap,
                   request_queue, job_results, th, hd, wreq, nruns, nfails,
                   ins_outs, ok_outs, qlog,
                   fifo, cleared_keys, restarts, batch>>

\* GET /job/<job_id> of an id the registry does not hold
PollUnknown(j) ==
    /\ j \notin DOMAIN job_results
    /\ observed' = [observed EXCEPT ![j] = Seen(@, Lookup(job_results, j))]
    /\ UNCHANGED <<now, tz, ticks, requests, next_id, response_cache, heap,
                   request_queue, job_results, th, hd, wreq, nruns, nfails,
                   ins_outs, ok_outs, qlog, fifo, cleared_keys, restarts,
                   batch>>

\* ------------------------------------------- GeminiAPI._process_queue
\* variant: the item is read and left in the queue
Peeked(q) == q

\* the queue after request_queue.get() has taken its first item
Dequeued(q) == Tail(q)

\* variant: a request is taken while the previous one is still being run
WorkerAnywhere == TRUE

\* the worker thread is at the top of its loop, the previous iteration over
WorkerAtGet == th[Worker].pc = "idle"

\* request = self.request_queue.get(timeout=1), then the call of
\* self.prompt(request["prompt"], request.get("extra_flags"))
WorkerGet ==
    /\ WorkerAtGet
    /\ request_queue # <<>>
    /\ wreq' = Head(request_queue)
    /\ request_queue' = Dequeued(request_queue)
    /\ th' = [th EXCEPT ![Worker] =
                 Enter(FreshRef, Head(request_queue).prompt,
                       Head(request_queue).extra_flags, TRUE)]
    /\ qlog' = [qlog EXCEPT ![Head(request_queue).job].dequeued = @ + 1,
                            ![Head(request_queue).job].runs = @ + 1]
    /\ fifo' = [fifo EXCEPT !.starts = Append(@, Head(request_queue).job)]
    /\ cleared_keys' = Looked(Head(request_queue).prompt,
                              Head(request_queue).extra_flags, TRUE)
    /\ UNCHANGED <<now, tz, ticks, requests, next_id, response_cache, heap,
                   job_results, hd, nruns, nfails, observed, ins_outs,
                   ok_outs, restarts, batch>>

\* request["callback"](result), the callback of the /prompt/async handler,
\* then request_queue.task_done()
WorkerCallback ==
    /\ th[Worker].pc = "done"
    /\ job_results' = [job_results EXCEPT
          ![CallbackTarget(wreq)] = CompletedRecord(th[Worker].res, now + tz)]
    /\ qlog' = [qlog EXCEPT ![wreq.job].callbacks = @ + 1]
    /\ ok_outs' = Returned(Worker)
    /\ th' = [th EXCEPT ![Worker] = IdleLocals]
    /\ wreq' = NoRequest
    /\ heap' = Collect(heap, response_cache, job_results', th')
    /\ UNCHANGED <<now, tz, ticks, requests, next_id, response_cache,
                   request_queue, hd, nruns, nfails, observed, ins_outs,
                   fifo, cleared_keys, restarts, batch>>

\* variant: the exception is not caught and ends the worker thread
WorkerDies ==
    /\ th[Worker].pc = "raised"
    /\ th' = [th EXCEPT ![Worker].pc = "dead"]
    /\ UNCHANGED <<now, tz, ticks, requests, next_id, response_cache, heap,
                   request_queue, job_results, hd, wreq, nruns, nfails,
                   observed, ins_outs, ok_outs, qlog, fifo, cleared_keys,
                   restarts, batch>>

\* except Exception as e: print(...); the loop goes on with the next item
WorkerExcept ==
    /\ th[Worker].pc = "raised"
    /\ th' = [th EXCEPT ![Worker] = IdleLocals]
    /\ qlog' = [qlog EXCEPT ![wreq.job].raised = @ + 1]
    /\ wreq' = NoRequest
    /\ UNCHANGED <<now, tz, ticks, requests, next_id, response_cache, heap,
                   request_queue, job_results, hd, nruns, nfails, observed,
                   ins_outs, ok_outs, fifo, cleared_keys, restarts, batch>>

\* ------------------------------------------------------- process restart
\* variant: the table is created anew at every start
InitDbFresh(rows) == {}

\* init_db: CREATE TABLE IF NOT EXISTS leaves an existing table as it is
InitDb(rows) == rows

\* the process ends, whatever its threads are doing, and a new one starts:
\* GeminiRateLimiter and GeminiAPI are built again over the same database
\* file, the server's job_results is a new dict
Restart ==
    /\ restarts < MaxRestarts
    /\ restarts' = restarts + 1
    /\ requests' = InitDb(requests)
    /\ response_cache' = [k \in {} |-> 0]
    /\ heap' = [r \in {} |-> 0]
    /\ request_queue' = <<>>
    /\ job_results' = [j \in {} |-> 0]
    /\ th' = [t \in Threads |-> IdleLocals]
    /\ hd' = [h \in Handlers |-> IdleHandler]
    /\ wreq' = NoRequest
    /\ batch' = IdleBatch
    /\ observed' = [j \in 1..MaxJobs |-> <<>>]
    /\ ins_outs' = [k \in Keys |-> {}]
    /\ ok_outs' = [k \in Keys |-> {}]
    /\ qlog' = [j \in 1..MaxJobs |-> NoJobLog]
    /\ fifo' = NoOrder
    /\ cleared_keys' = {}
    /\ UNCHANGED <<now, tz, ticks, next_id, nruns, nfails>>

\* ------------------------------------------------------- specifications
\* the steps of a call of prompt() that found no cached answer
Fresh(T) ==
    \/ \E t \in T : Admit(t)
    \/ \E t \in T : Denied(t)
    \/ \E t \in T, o \in Outputs : ExecuteOk(t, o)
    \/ \E t \in T : Record(t)
    \/ \E t \in T : CachePut(t)
    \/ \E t \in T : Finish(t)

\* the steps of prompt() taken by the threads of T while the command succeeds
Run(T) ==
    \/ \E t \in T : CacheRead(t)
    \/ Fresh(T)

\* the steps of prompt() after a failed run of the command
Retry(T) ==
    \/ \E t \in T, e \in Errors : ExecuteFail(t, e)
    \/ \E t \in T : Failed(t)

\* at most n synchronous calls by the threads of T
Sync(T, n) ==
    \/ \E t \in T, p \in Prompts, f \in FlagLists, uc \in BOOLEAN :
          nruns < n /\ Call(t, p, f, uc)
    \/ \E t \in T : CallerReturn(t)
    \/ \E t \in T : CallerRaised(t)

\* requests to POST /prompt/async served by the handler threads of H
Produce(H) ==
    \/ \E h \in H, p \in Prompts, f \in FlagLists : AsyncInit(h, p, f)
    \/ \E h \in H : AsyncPut(h)

\* the loop of the worker around its call of prompt()
Drain ==
    \/ WorkerGet
    \/ WorkerCallback
    \/ WorkerExcept

Async(H) ==
    \/ Produce(H)
    \/ \E j \in 1..MaxJobs : Poll(j)
    \/ Drain

\* the async endpoint while prompt() returns to the worker: with a command
\* that succeeds and a cache nobody clears, no exception reaches the loop
AsyncServed(H) ==
    \/ Produce(H)
    \/ \E j \in 1..MaxJobs : Poll(j)
    \/ WorkerGet
    \/ WorkerCallback

\* one synchronous caller, the clock and cache clears
Next ==
    \/ Sync({"c1"}, MaxRuns)
    \/ Run({"c1"})
    \/ Retry({"c1"})
    \/ ClearCache
    \/ \E d \in TickSteps : Tick(d)

Spec == Init /\ [][Next]_vars

\* concurrent synchronous callers of a command that succeeds, with one call
\* more so that a third call can follow two concurrent ones
NextSync ==
    \/ Sync(Callers, MaxRuns + 1)
    \/ Run(Callers)
    \/ ClearCache

SpecSync == Init /\ [][NextSync]_vars

\* the async endpoint, its pollers and the worker
NextAsync ==
    \/ Async({"h1"})
    \/ Run({Worker})
    \/ Retry({Worker})
    \/ ClearCache

SpecAsync == Init /\ [][NextAsync]_vars

\* the steps of the worker thread: the loop of _process_queue and the call
\* of prompt() inside it
WorkerSteps ==
    \/ WorkerGet
    \/ WorkerCallback
    \/ WorkerExcept
    \/ Run({Worker})
    \/ Retry({Worker})

\* the worker is a daemon thread that loops for ever and a handler that has
\* created its job goes on to enqueue it: neither stops while it can step
FairAsync ==
    /\ SpecAsync
    /\ WF_vars(WorkerSteps)
    /\ WF_vars(\E h \in {"h1"} : AsyncPut(h))

\* concurrent producers of the async endpoint and the worker, with cache
\* clears; the command succeeds
NextQueue ==
    \/ Async(Handlers)
    \/ Run({Worker})
    \/ ClearCache

SpecQueue == Init /\ [][NextQueue]_vars

\* a script that submits distinct prompts one after the other
ScriptCall(t, flags, uc) ==
    /\ nruns < Len(DistinctPrompts)
    /\ Call(t, DistinctPrompts[nruns + 1], flags, uc)

\* a single caller submits max_requests + 1 distinct prompts within the
\* hour; the command succeeds
NextQuota ==
    \/ \E f \in FlagLists, uc \in BOOLEAN :
          nruns < max_requests + 1 /\ ScriptCall("c1", f, uc)
    \/ CallerReturn("c1")
    \/ Fresh({"c1"})

SpecQuota == Init /\ [][NextQuota]_vars

\* one batch and no other caller; the command succeeds
NextBatch ==
    \/ BatchStart
    \/ BatchCheck
    \/ BatchCall
    \/ BatchAppend
    \/ Fresh({Batcher})

SpecBatch == Init /\ [][NextBatch]_vars

\* concurrent callers that all use the cache and pass no flags, cache
\* clears and the clock
NextClear ==
    \/ \E t \in Callers, p \in Prompts :
          nruns < MaxRuns + 1 /\ Call(t, p, None, TRUE)
    \/ \E t \in Callers : CallerReturn(t)
    \/ \E t \in Callers : CallerRaised(t)
    \/ Run(Callers)
    \/ ClearCache
    \/ \E d \in TickSteps : Tick(d)

SpecClear == Init /\ [][NextClear]_vars

\* the async endpoint and the worker of a process that may be restarted
NextRestart ==
    \/ AsyncServed({"h1"})
    \/ Run({Worker})
    \/ Restart

SpecRestart == Init /\ [][NextRestart]_vars

\* a client that calls prompt() once and, after its return, enqueues
\* requests for the worker, with cache clears at any time; the command
\* succeeds
NextMixed ==
    \/ \E f \in FlagLists : nruns < 1 /\ Call("c1", "p", f, TRUE)
    \/ CallerReturn("c1")
    \/ nruns = 1 /\ th["c1"].pc = "idle" /\ Produce({"h1"})
    \/ Drain
    \/ Run({"c1", Worker})
    \/ ClearCache

SpecMixed == Init /\ [][NextMixed]_vars

\* the steps of the worker thread while the command succeeds
WorkerRuns ==
    \/ Drain
    \/ Run({Worker})

FairMixed ==
    /\ SpecMixed
    /\ WF_vars(WorkerRuns)
    /\ WF_vars(\E h \in {"h1"} : AsyncPut(h))

\* the async endpoint, the worker and clients that poll any id
NextJobs ==
    \/ AsyncServed({"h1"})
    \/ Run({Worker})
    \/ \E j \in 1..MaxJobs : PollUnknown(j)

SpecJobs == Init /\ [][NextJobs]_vars

\* ================================================================ claims
ResultOf(t) == heap[th[t].res]

Returning(t) == th[t].pc = "done"

\* ---------------------------------------------------------------- C1
\* C1: in every reachable state the number of request records whose
\* timestamp lies within the trailing 3600 seconds is at most max_requests.
QuotaInvariant == Cardinality(InWindow(requests, now)) <= max_requests

\* ---------------------------------------------------------------- C2
\* a call that follows a successful call with the same (prompt, flags), both
\* with use_cache, with no cache clear since that call began
SecondCall(t) ==
    Returning(t) /\ th[t].use_cache /\ th[t].expect # {} /\ ~th[t].cleared

\* C2 as stated: the second call returns from_cache=true with the output of
\* the first, whichever earlier successful call is taken as the first, and
\* neither runs the command nor adds a record.
CacheHitIdenticalToFirst ==
    \A t \in Threads :
        SecondCall(t) =>
            /\ ResultOf(t).from_cache
            /\ \A o \in th[t].expect : ResultOf(t).output = o
            /\ th[t].execs = 0
            /\ th[t].recs = 0

\* C2 amended: the second call returns from_cache=true with an output stored
\* under the fingerprint since the last clear, which is the output of the
\* first when no other output was stored, and neither runs the command nor
\* adds a record.
CacheHitReturnsStoredOutput ==
    \A t \in Threads :
        SecondCall(t) =>
            /\ th[t].hit
            /\ ResultOf(t).from_cache
            /\ ResultOf(t).success
            /\ ResultOf(t).output \in ins_outs[Key(t)]
            /\ Cardinality(ins_outs[Key(t)]) = 1 =>
                  th[t].expect = {ResultOf(t).output}
            /\ th[t].execs = 0
            /\ th[t].recs = 0
            /\ th[t].admits = 0

CacheHitWitness ==
    \E t \in Threads :
        SecondCall(t) /\ th[t].hit /\ ResultOf(t).output \in th[t].expect

\* ---------------------------------------------------------------- C3
\* C3: a call with use_cache whose fingerprint is in the cache never calls
\* can_make_request, the retry loop or record_request, whether or not the
\* quota is exhausted, and what it returns is the cached result.
CacheBypassesLimiter ==
    \A t \in Threads :
        th[t].present =>
            /\ th[t].pc \in {"cache_read", "done", "raised"}
            /\ th[t].admits = 0
            /\ th[t].execs = 0
            /\ th[t].sleeps = <<>>
            /\ th[t].recs = 0
            /\ Returning(t) => th[t].hit /\ ResultOf(t).from_cache

CacheBypassWitness ==
    \E t \in Threads :
        Returning(t) /\ th[t].present /\ th[t].hit /\ th[t].exhausted

\* ---------------------------------------------------------------- C4
RateLimited(t) == Returning(t) /\ ResultOf(t).error = "Rate limit reached"

\* C4: a request the limiter denies returns a failure with wait_seconds > 0
\* and the current usage snapshot, having run no command, slept for no
\* backoff and added no record.
DeniedReturnsImmediately ==
    \A t \in {"c1"} :
        /\ th[t].pc = "denied" =>
              /\ th[t].wait > 0
              /\ th[t].execs = 0 /\ th[t].sleeps = <<>> /\ th[t].recs = 0
        /\ RateLimited(t) =>
              /\ ~ResultOf(t).success
              /\ ResultOf(t).wait_time > 0
              /\ ResultOf(t).usage = UsageStats(requests, now)
              /\ th[t].admits = 1
              /\ th[t].execs = 0 /\ th[t].sleeps = <<>> /\ th[t].recs = 0
              /\ requests = th[t].rows0

DeniedWitness == \E t \in {"c1"} : RateLimited(t) /\ requests # {}

\* ---------------------------------------------------------------- C5
Executed(t) == Returning(t) /\ th[t].execs > 0

\* C5: the command runs at most max_retries times and not again after a
\* success; the sleep before attempt k > 0 (0-based) is 2^k seconds; a
\* success on the third run follows sleeps of 2 s and 4 s and reports
\* attempt 3.
RetryPolicy ==
    \A t \in {"c1"} :
        /\ th[t].execs <= max_retries
        /\ \A k \in 1..Len(th[t].sleeps) : th[t].sleeps[k] = Pow2(k)
        /\ Len(th[t].sleeps) =
              IF th[t].pc = "execute" \/ th[t].execs = 0 THEN th[t].execs
              ELSE th[t].execs - 1
        /\ Executed(t) /\ ResultOf(t).success =>
              ResultOf(t).attempt = th[t].execs
        /\ Executed(t) /\ ~ResultOf(t).success => th[t].execs = max_retries
        /\ Executed(t) /\ ResultOf(t).success /\ th[t].execs = 3 =>
              th[t].sleeps = <<2, 4>> /\ ResultOf(t).attempt = 3

RetryWitness ==
    \E t \in {"c1"} :
        Executed(t) /\ ResultOf(t).success /\ th[t].execs = 3

\* ---------------------------------------------------------------- C6
AllFailed(t) == Executed(t) /\ ~ResultOf(t).success

Statuses(j) == observed[j]

\* C7: the polls of a job see Processing and then Completed, never the
\* reverse, and the record of a completed job is not written again.
JobLifecycleMonotonic ==
    /\ [](\A j \in 1..MaxJobs :
            Statuses(j) \in {<<>>, <<"processing">>, <<"completed">>,
                             <<"processing", "completed">>})
    /\ [][\A j \in DOMAIN job_results :
            /\ j \in DOMAIN job_results'
            /\ job_results[j].status \in {"completed", "failed"} =>
                  job_results'[j] = job_results[j]]_vars

JobLifecycleWitness ==
    \E j \in DOMAIN job_results :
        /\ Statuses(j) = <<"processing", "completed">>
        /\ qlog[j].callbacks = 1

\* ---------------------------------------------------------------- C8
Terminal(j) == job_results[j].status \in {"completed", "failed"}

\* C8 as stated: a job ends Completed exactly when its run returned success
\* and Failed when its run returned a failure.
JobStatusReflectsOutcome ==
    \A j \in DOMAIN job_results :
        Terminal(j) =>
            (job_results[j].status = "completed"
                <=> heap[job_results[j].result].success)

\* C8 amended: a job ends Completed whenever its run returned a result,
\* success or failure; there is no Failed status, and the outcome is the
\* success field of the stored result, which is the result the run returned.
JobCompletedOnAnyResult ==
    /\ [](\A j \in DOMAIN job_results :
            /\ job_results[j].status \in {"processing", "completed"}
            /\ job_results[j].status = "completed" <=> qlog[j].callbacks > 0
            /\ job_results[j].status = "completed" =>
                  job_results[j].result \in DOMAIN heap)
    /\ [][th[Worker].pc = "done" /\ th'[Worker].pc = "idle" =>
            /\ job_results'[wreq.job].status = "completed"
            /\ job_results'[wreq.job].result = th[Worker].res
            /\ heap'[th[Worker].res] = heap[th[Worker].res]]_vars

JobCompletedWitness ==
    \E j \in DOMAIN job_results :
        /\ job_results[j].status = "completed"
        /\ ~heap[job_results[j].result].success

\* ---------------------------------------------------------------- C9
InQueue(j) == \E i \in 1..Len(request_queue) : request_queue[i].job = j

\* C9: while the worker keeps running, every request put in the queue
\* eventually has its callback invoked, whatever happens during its run.
EveryCallbackInvoked ==
    \A j \in 1..MaxJobs : InQueue(j) ~> (qlog[j].callbacks = 1)

\* ---------------------------------------------------------------- C10
Occurrences(j) ==
    Cardinality({i \in 1..Len(request_queue) : request_queue[i].job = j})

\* C10: a queued request is dequeued at most once, run at most once and its
\* callback invoked at most once, and it is not in the queue once taken.
AtMostOneExecution ==
    \A j \in 1..MaxJobs :
        /\ qlog[j].dequeued <= 1
        /\ qlog[j].runs <= 1
        /\ qlog[j].callbacks <= 1
        /\ qlog[j].callbacks <= qlog[j].runs
        /\ qlog[j].runs <= qlog[j].dequeued
        /\ Occurrences(j) + qlog[j].dequeued <= 1

AtMostOneWitness ==
    \E j \in 1..MaxJobs :
        qlog[j].callbacks = 1 /\ request_queue # <<>>

\* ---------------------------------------------------------------- C11
\* the run of job j is over: its callback was invoked or its run raised
Over(j) == qlog[j].callbacks + qlog[j].raised = 1

\* C11: requests are started in the order in which their puts completed, and
\* a request is started only when every request put before it has been
\* started and is over, so that no callback of an earlier request follows
\* the start of a later one.
FifoOrder ==
    /\ Len(fifo.starts) <= Len(fifo.puts)
    /\ fifo.starts = SubSeq(fifo.puts, 1, Len(fifo.starts))
    /\ \A i \in 1..(Len(fifo.starts) - 1) : Over(fifo.starts[i])
    /\ \A j \in 1..MaxJobs : qlog[j].callbacks + qlog[j].raised <= 1

FifoWitness ==
    /\ fifo.puts = <<2, 1>>
    /\ fifo.starts = <<2, 1>>
    /\ qlog[2].callbacks = 1

\* ---------------------------------------------------------------- C12
\* the request of job j has been taken from the queue and its run, callback
\* included, is not over
InProgress(j) == qlog[j].dequeued > 0 /\ ~Over(j)

\* C12: at no time are two queued requests inside prompt() or their
\* callbacks: at most one job is in progress, it is the one the single worker
\* holds, and the worker holds one exactly while it is away from its get.
SingleWorker ==
    /\ Cardinality({j \in 1..MaxJobs : InProgress(j)}) <= 1
    /\ \A j \in 1..MaxJobs : InProgress(j) <=> wreq.job = j
    /\ Busy(Worker) <=> wreq.job # 0

SingleWorkerWitness ==
    /\ \E j \in 1..MaxJobs : InProgress(j) /\ th[Worker].pc = "record"
    /\ \E h \in Handlers : hd[h].pc = "put"

\* ---------------------------------------------------------------- C13
Uncached(t) == Busy(t) /\ ~th[t].use_cache

\* C13 as stated: with use_cache=false every call runs the command.
NoCacheAlwaysExecutes ==
    \A t \in {"c1"} : Returning(t) /\ ~th[t].use_cache => th[t].execs >= 1

\* C13 amended: with use_cache=false a call never reads the cache, whatever
\* it holds, and goes to admission; it runs the command if the limiter
\* admits it and returns the rate-limited failure otherwise; its result is
\* its own and is not put in the cache.
NoCacheSkipsCache ==
    \A t \in {"c1"} :
        Uncached(t) =>
            /\ th[t].pc \notin {"cache_read", "raised"}
            /\ ~th[t].hit
            /\ th[t].pc \in {"record", "cache_put", "finish"} => th[t].execs >= 1
            /\ Returning(t) =>
                  /\ th[t].admits = 1
                  /\ th[t].res = th[t].run
                  /\ ~ResultOf(t).from_cache
                  /\ IF RateLimited(t) THEN th[t].execs = 0
                     ELSE th[t].execs >= 1
            /\ \A k \in DOMAIN response_cache :
                  response_cache[k] # th[t].run

NoCacheWitness ==
    \E t \in {"c1"} :
        /\ Returning(t) /\ ~th[t].use_cache
        /\ Key(t) \in DOMAIN response_cache
        /\ ResultOf(t).success

\* ---------------------------------------------------------------- C14
\* C14: of max_requests + 1 distinct prompts submitted one after the other
\* within the hour, the first max_requests succeed and the last returns the
\* rate-limited failure with wait_seconds > 0 and remaining_this_hour = 0.
QuotaExhaustion ==
    Returning("c1") =>
        /\ nruns <= max_requests =>
              /\ ResultOf("c1").success
              /\ ResultOf("c1").attempt = 1
              /\ Cardinality(requests) = nruns
        /\ nruns = max_requests + 1 =>
              /\ RateLimited("c1")
              /\ ~ResultOf("c1").success
              /\ ResultOf("c1").wait_time > 0
              /\ ResultOf("c1").usage.remaining_this_hour = 0
              /\ th["c1"].execs = 0
              /\ Cardinality(requests) = max_requests

QuotaExhaustionWitness ==
    Returning("c1") /\ nruns = max_requests + 1 /\ RateLimited("c1")

\* ---------------------------------------------------------------- C15
BatchReturned == batch.pc = "returned"

\* C15: of a batch longer than the quota every item is run (none comes back
\* rate-limited), the list returned has one result per prompt in the order
\* of the prompts, the first max_requests items run without a pause and
\* each later one after a pause of at least the wait the limiter returned.
BatchRespectsLimiter ==
    /\ \A k \in DOMAIN batch.results :
          /\ heap[batch.results[k]].success
          /\ \E r \in requests : r.id = k /\ r.prompt_hash = BatchList[k]
    /\ \A k \in DOMAIN batch.slept :
          batch.slept[k].item > max_requests /\ batch.slept[k].secs >= 1
    /\ BatchReturned =>
          /\ Len(batch.results) = Len(BatchList)
          /\ Len(batch.slept) = Len(BatchList) - max_requests

\* ---------------------------------------------------------------- C16
\* the first call with use_cache for a (prompt, flags) pair since a clear
\* removed the entry of that pair
NextAfterClear(t) == Returning(t) /\ th[t].after_clear

\* C16 as stated: the next call after a clear does not return from the cache.
AfterClearExecutes ==
    \A t \in Threads : NextAfterClear(t) => ~th[t].hit

\* C16 amended: the next call after a clear does not return from the cache
\* and, once admitted, runs the command again, unless a request with the
\* same pair stored its result between the clear and that call.
AfterClearExecutesUnlessRestored ==
    \A t \in Threads :
        NextAfterClear(t) /\ ~th[t].restored =>
            /\ ~th[t].hit
            /\ ~th[t].present
            /\ th[t].admits = 1
            /\ th[t].res = th[t].run
            /\ IF RateLimited(t) THEN th[t].execs = 0 ELSE th[t].execs >= 1

AfterClearWitness ==
    \E t \in Threads :
        /\ NextAfterClear(t) /\ ~th[t].restored
        /\ th[t].execs = 1 /\ ResultOf(t).success

\* ---------------------------------------------------------------- C17
\* C17: a clear interleaved with a call of prompt() never makes the call
\* raise: no thread is ever left with the KeyError of the cache read.
ClearIsSafe == \A t \in Threads : th[t].pc # "raised"

\* ---------------------------------------------------------------- C18
\* C18: no step, a restart included, removes a request record; a restart
\* leaves the records and the id counter as they are and empties the cache,
\* the queue and the job registry; and after it a request is admitted only
\* while the records, old ones included, leave room in the trailing hour.
DurableRecords ==
    /\ [][requests \subseteq requests']_vars
    /\ [][restarts' # restarts =>
            /\ requests' = requests
            /\ next_id' = next_id
            /\ DOMAIN response_cache' = {}
            /\ request_queue' = <<>>
            /\ DOMAIN job_results' = {}]_vars
    /\ [](th[Worker].pc \in {"execute", "record"} =>
            Cardinality(InWindow(requests, now)) < max_requests)

\* after a restart, before any job of the new process is over, a request is
\* denied: the record that fills the quota is from before the restart
DurableWitness ==
    /\ restarts = 1
    /\ RateLimited(Worker)
    /\ \A j \in 1..MaxJobs : ~Over(j)
    /\ Cardinality(InWindow(requests, now)) = max_requests

\* ---------------------------------------------------------------- C19
\* C19: an exception raised in the loop of the worker does not end it: every
\* request in the queue, put before or after the exception, is eventually
\* taken and its run brought to an end.
WorkerSurvives ==
    \A j \in 1..MaxJobs : InQueue(j) ~> (qlog[j].dequeued = 1 /\ Over(j))

\* the run of one job raised and the job taken after it was completed
WorkerSurvivesWitness ==
    \E j, k \in 1..MaxJobs :
        /\ fifo.starts = <<j, k>>
        /\ qlog[j].raised = 1
        /\ qlog[k].callbacks = 1

\* ---------------------------------------------------------------- C20
\* C20: a lookup never changes the registry; it answers not found for an
\* id the registry does not hold and the current record for one it holds,
\* so that an id once created is never answered not found.
JobLookup ==
    /\ [][\A j \in 1..MaxJobs :
            observed'[j] # observed[j] =>
                /\ job_results' = job_results
                /\ observed'[j][Len(observed'[j])] =
                      IF j \in DOMAIN job_results
                      THEN job_results[j].status ELSE "not_found"]_vars
    /\ [](\A j \in 1..MaxJobs :
            /\ \A i \in 2..Len(observed[j]) : observed[j][i] # "not_found"
            /\ j \notin DOMAIN job_results =>
                  observed[j] \in {<<>>, <<"not_found">>})

JobLookupWitness ==
    /\ \E j \in 1..MaxJobs :
          j \notin DOMAIN job_results /\ observed[j] = <<"not_found">>
    /\ \E k \in DOMAIN job_results :
          observed[k] = <<"not_found", "processing", "completed">>

\* ---------------------------------------------------------------- C21
\* C21: when a call of can_make_request returns, the table holds no row
\* whose timestamp is more than one hour old.
PrunedAfterAdmit ==
    [][\A t \in Threads :
          th[t].pc = "admit" /\ th'[t].pc # "admit" =>
              Expired(requests', now') = {}]_vars

\* ---------------------------------------------------------------- C22
\* C22: can_make_request allows the request, with no wait, exactly when the
\* trailing hour holds fewer than max_requests rows; otherwise it denies it
\* with a wait of max(1, oldest row of the trailing hour + 3600 - now), or
\* of 60 when it finds no such row, all times read from one clock.
AdmitDecision ==
    [][\A t \in Threads :
          th'[t].admits = th[t].admits + 1 =>
              IF Cardinality(InWindow(requests, now)) < max_requests
              THEN th'[t].pc \in {"execute", "failed"} /\ th'[t].wait = 0
              ELSE /\ th'[t].pc = "denied"
                   /\ th'[t].wait = WaitSeconds(requests, now, 0)]_vars

\* ---------------------------------------------------------------- C23
\* the threads that call prompt() against the one limiter
Actors == Callers

\* C23: with K concurrent callers of prompt() the number of request records
\* within the trailing hour never exceeds max_requests + K - 1.
BoundedOvershoot ==
    Cardinality(InWindow(requests, now)) <=
        max_requests + Cardinality(Actors) - 1

\* the bound is reached: every caller but one has recorded over the limit
BoundedOvershootWitness ==
    /\ Cardinality(InWindow(requests, now)) =
          max_requests + Cardinality(Actors) - 1
    /\ Cardinality(InWindow(requests, now)) > max_requests

\* ---------------------------------------------------------------- C24
\* the result dictionary the registry holds for job j, once it is completed
Delivered(j) == heap[job_results[j].result]

\* C24: the result stored in the registry for a completed job whose request
\* was not answered from the cache never changes afterwards; in particular
\* it never comes to report from_cache = true.
DeliveredUnchanged ==
    [][\A j \in DOMAIN job_results \cap DOMAIN job_results' :
          /\ job_results[j].status = "completed"
          /\ job_results'[j] = job_results[j]
          /\ ~Delivered(j).from_cache
          => heap'[job_results[j].result] = Delivered(j)]_vars

\* ---------------------------------------------------------------- C25
\* the thread whose run stored the entry of key k: it ran the command, got
\* a success and committed a request record for it
Inserter(t, k, ref) ==
    /\ Key(t) = k /\ th[t].use_cache
    /\ th[t].res = ref
    /\ th[t].execs >= 1 /\ th[t].recs = 1
    /\ \E r \in requests :
          /\ r.prompt_hash = th[t].text
          /\ r.response_length = Len(heap[ref].output)

\* C25: every entry of the response cache is a result with success = true,
\* stored by a run that invoked the command and added a request record;
\* rate-limited and failed results are never stored, and a call answered
\* from the cache never returns a failure.
OnlySuccessesCached ==
    /\ [](\A k \in DOMAIN response_cache : heap[response_cache[k]].success)
    /\ [](\A t \in Threads :
            Returning(t) /\ th[t].hit => ResultOf(t).success)
    /\ [][\A k \in DOMAIN response_cache' :
            (k \notin DOMAIN response_cache
                \/ response_cache'[k] # response_cache[k]) =>
                \E t \in Threads : Inserter(t, k, response_cache'[k])]_vars

\* with an entry in the cache, a use_cache call for another key ran out of
\* retries and returned its failure, which the cache does not hold
OnlySuccessesWitness ==
    \E t \in Threads :
        /\ Returning(t) /\ th[t].use_cache
        /\ ~ResultOf(t).success /\ th[t].execs = max_retries
        /\ Key(t) \notin DOMAIN response_cache
        /\ DOMAIN response_cache # {}

=============================================================================
